---------------------------- MODULE Spec2Model ----------------------------
(***************************************************************************)
(* The pricing core of src/main.rs: a Basket accumulates scanned           *)
(* quantities per catalog Product and an ordered list of Deals; total      *)
(* folds every line through its first matching deal and sums the line      *)
(* amounts as Currency(u32).                                               *)
(*                                                                         *)
(* u32 values are kept at their width.  TLC's integers are 32-bit signed,  *)
(* so a u32 is a little-endian sequence of four base-256 digits; the helper*)
(* operators below are the machine's wrapping arithmetic together with the *)
(* overflow flag that decides a panic when the build checks overflow.      *)
(***************************************************************************)
EXTENDS Integers, Sequences, FiniteSets

\* ----------------------------------------------------------------- bounds

\* Largest number of successful scans of one identifier the model explores.
MaxScans == 3

\* Largest number of add_deal calls the model explores.
MaxDeals == 2

\* Largest percentage a caller passes in PercentageDiscount (add_deal accepts
\* any u32; the model draws DEAL2's percentage and this one).
MaxPercent == 101

\* ------------------------------------------------------------------- u32

\* One digit of a u32 holds eight bits.
Base == 256

\* A u32 has four such digits.
Limbs == 4

U32Zero == <<0, 0, 0, 0>>

\* The u32 holding n, for 0 <= n < 2^31.
U32(n) ==
    << n % Base, (n \div Base) % Base, (n \div (Base * Base)) % Base,
       n \div (Base * Base * Base) >>

\* A u32 below 2^31 can be read back as a number of the model.
FitsNat(a) == a[4] < 128

ToNat(a) == a[1] + Base * (a[2] + Base * (a[3] + Base * a[4]))

\* a * b on u32, by the schoolbook columns of the digits: the wrapped value
\* and whether the product left the width (a carry out of the fourth column,
\* or a digit product that lies above it).
MulU32(a, b) ==
    LET c1 == a[1] * b[1]
        c2 == a[1] * b[2] + a[2] * b[1] + c1 \div Base
        c3 == a[1] * b[3] + a[2] * b[2] + a[3] * b[1] + c2 \div Base
        c4 == a[1] * b[4] + a[2] * b[3] + a[3] * b[2] + a[4] * b[1] + c3 \div Base
        hi == c4 \div Base + a[2] * b[4] + a[3] * b[3] + a[4] * b[2]
                           + a[3] * b[4] + a[4] * b[3] + a[4] * b[4]
    IN  [ val |-> << c1 % Base, c2 % Base, c3 % Base, c4 % Base >>,
          ovf |-> hi # 0 ]

\* a + b on u32: the wrapped value and whether a carry left the width.
AddU32(a, b) ==
    LET c1 == a[1] + b[1]
        c2 == a[2] + b[2] + c1 \div Base
        c3 == a[3] + b[3] + c2 \div Base
        c4 == a[4] + b[4] + c3 \div Base
    IN  [ val |-> << c1 % Base, c2 % Base, c3 % Base, c4 % Base >>,
          ovf |-> c4 \div Base # 0 ]

\* a - b on u32: the wrapped value and whether it borrowed from beyond the
\* width (a < b).
SubU32(a, b) ==
    LET c1 == a[1] - b[1]
        c2 == a[2] - b[2] - (IF c1 < 0 THEN 1 ELSE 0)
        c3 == a[3] - b[3] - (IF c2 < 0 THEN 1 ELSE 0)
        c4 == a[4] - b[4] - (IF c3 < 0 THEN 1 ELSE 0)
    IN  [ val |-> << (c1 + Base) % Base, (c2 + Base) % Base,
                     (c3 + Base) % Base, (c4 + Base) % Base >>,
          ovf |-> c4 < 0 ]

\* a / d on u32 for a divisor 0 < d < 2^16, by long division from the top
\* digit down: never overflows, rounds down.
DivU32(a, d) ==
    LET r4 == a[4]
        r3 == (r4 % d) * Base + a[3]
        r2 == (r3 % d) * Base + a[2]
        r1 == (r2 % d) * Base + a[1]
    IN  << r1 \div d, r2 \div d, r3 \div d, r4 \div d >>

\* a % d on u32 for a divisor 0 < d < 2^16.
RemU32(a, d) ==
    ((((((a[4] % d) * Base + a[3]) % d) * Base + a[2]) % d) * Base + a[1]) % d

\* u32::div_ceil(self, rhs): d = self / rhs, r = self % rhs,
\* if r > 0 { d + 1 } else { d }.  The increment cannot leave the width.
DivCeilU32(a, d) ==
    IF RemU32(a, d) > 0 THEN AddU32(DivU32(a, d), U32(1)).val ELSE DivU32(a, d)


\* ------------------------------------------------------------ data model

\* struct Product { name, price: Currency(u32) }
Product(name, price) == [name |-> name, price |-> price]

\* Catalog prices, in minor units.
PriceA0001 == 1299

PriceA0002 == 399

\* The catalog: product identifier -> Product.
INVENTORY ==
    [n \in {"A0001", "A0002"} |->
        IF n = "A0001" THEN Product("A0001", PriceA0001)
                       ELSE Product("A0002", PriceA0002)]

\* enum DealKind { Buy1Get1Free, PercentageDiscount(u32) }
Buy1Get1Free == [tag |-> "Buy1Get1Free", percentage |-> 0]

PercentageDiscount(p) == [tag |-> "PercentageDiscount", percentage |-> p]

\* struct Deal { product: String, kind: DealKind }
Deal(product, kind) == [product |-> product, kind |-> kind]

DEAL1 == Deal("A0002", Buy1Get1Free)

\* The percentage of DEAL2.
Deal2Percent == 10

DEAL2 == Deal("A0001", PercentageDiscount(Deal2Percent))

\* Identifiers a caller passes to scan or binds a deal to: the catalog's and
\* one the catalog does not hold.
Identifiers == {"A0001", "A0002", "X9999"}

\* Percentages a caller passes: DEAL2's, and one above 100.
Percentages == {Deal2Percent, MaxPercent}

\* The Deal values a caller passes to add_deal (DEAL1 and DEAL2 among them).
DealValues ==
    { Deal(i, k) : i \in Identifiers,
                   k \in {Buy1Get1Free} \cup {PercentageDiscount(p) : p \in Percentages} }

\* ------------------------------------------------------------- the state

VARIABLES
    products,        \* Basket.products: Product -> quantity, absent until scanned
    deals,           \* Basket.deals: the deals in the order add_deal pushed them
    overflowChecks,  \* whether the build panics on integer overflow (debug) or wraps
    result,          \* the last call and what it returned
    scanned          \* history: identifier -> number of scans that returned Ok

vars == <<products, deals, overflowChecks, result, scanned>>

\* ---------------------------------------------------------------- total

\* What evaluating a Currency expression gives: a panic (the build checks
\* overflow and an operation left the u32 width) or a value; fault records
\* that an operation wrapped.
Panic == [panic |-> TRUE, fault |-> TRUE, val |-> U32Zero]

Value(v, wrapped) == [panic |-> FALSE, fault |-> wrapped, val |-> v]

\* The free unit granted by rounding the pair count down instead of up.
Buy1Get1FreeAmountFloor(quantity, price, chk) ==
    LET m == MulU32(DivU32(U32(quantity), 2), U32(price))
    IN  IF m.ovf /\ chk THEN Panic ELSE Value(m.val, m.ovf)

\* Currency(quantity.div_ceil(2) * product.price.0)
Buy1Get1FreeAmount(quantity, price, chk) ==
    LET m == MulU32(DivCeilU32(U32(quantity), 2), U32(price))
    IN  IF m.ovf /\ chk THEN Panic ELSE Value(m.val, m.ovf)

\* Currency(quantity * product.price.0 * (100 - percentage) / 100)
PercentageDiscountAmount(quantity, price, percentage, chk) ==
    LET m1 == MulU32(U32(quantity), U32(price))
        s  == SubU32(U32(100), U32(percentage))
        m2 == MulU32(m1.val, s.val)
    IN  IF chk /\ (m1.ovf \/ s.ovf \/ m2.ovf) THEN Panic
        ELSE Value(DivU32(m2.val, 100), m1.ovf \/ s.ovf \/ m2.ovf)

\* match deal.kind { ... }
DealAmount(kind, quantity, price, chk) ==
    IF kind.tag = "Buy1Get1Free"
    THEN Buy1Get1FreeAmount(quantity, price, chk)
    ELSE PercentageDiscountAmount(quantity, price, kind.percentage, chk)

\* Currency(quantity * product.price.0)
PlainAmount(quantity, price, chk) ==
    LET m == MulU32(U32(quantity), U32(price))
    IN  IF m.ovf /\ chk THEN Panic ELSE Value(m.val, m.ovf)

RECURSIVE LineFrom(_, _, _, _, _)
\* for deal in &self.deals { if deal.product == product.name { return ... } }
\* from the i-th deal on, then the undiscounted amount.
LineFrom(product, quantity, ds, i, chk) ==
    IF i > Len(ds) THEN PlainAmount(quantity, product.price, chk)
    ELSE IF ds[i].product = product.name
         THEN DealAmount(ds[i].kind, quantity, product.price, chk)
         ELSE LineFrom(product, quantity, ds, i + 1, chk)

RECURSIVE LineFromLast(_, _, _, _, _)
\* LineFrom walking the deal list from its end: the last matching deal wins.
LineFromLast(product, quantity, ds, i, chk) ==
    IF i < 1 THEN PlainAmount(quantity, product.price, chk)
    ELSE IF ds[i].product = product.name
         THEN DealAmount(ds[i].kind, quantity, product.price, chk)
         ELSE LineFromLast(product, quantity, ds, i - 1, chk)

LineAmountLastWins(product, quantity, ds, chk) ==
    LineFromLast(product, quantity, ds, Len(ds), chk)

\* The loop without its product test: the first deal applies to every line.
LineAmountAnyDeal(product, quantity, ds, chk) ==
    IF Len(ds) = 0 THEN PlainAmount(quantity, product.price, chk)
    ELSE DealAmount(ds[1].kind, quantity, product.price, chk)

\* The loop left after its first turn: only the first deal is looked at.
LineAmountFirstOnly(product, quantity, ds, chk) ==
    IF Len(ds) > 0 /\ ds[1].product = product.name
    THEN DealAmount(ds[1].kind, quantity, product.price, chk)
    ELSE PlainAmount(quantity, product.price, chk)

\* The closure of total's map: one line's amount.
LineAmount(product, quantity, ds, chk) == LineFrom(product, quantity, ds, 1, chk)

\* The orders in which a HashMap holding the keys S may be iterated.
Orders(S) ==
    { o \in [1..Cardinality(S) -> S] : \A i, j \in DOMAIN o : o[i] = o[j] => i = j }

RECURSIVE SumFrom(_, _, _, _, _, _)
\* impl Sum for Currency: the u32 sum of the line amounts, pulled one by one
\* from the lazy map, from the i-th line of the iteration on.
SumFrom(prods, ds, order, i, acc, chk) ==
    IF i > Len(order) THEN acc
    ELSE LET line == LineAmount(order[i], prods[order[i]], ds, chk)
             s    == AddU32(acc.val, line.val)
         IN  IF line.panic \/ (s.ovf /\ chk) THEN Panic
             ELSE SumFrom(prods, ds, order, i + 1,
                          Value(s.val, acc.fault \/ line.fault \/ s.ovf), chk)

\* The sum taken as reduce(..).unwrap(): it panics when there is no line.
CurrencySumReduce(prods, ds, order, chk) ==
    IF Len(order) = 0 THEN Panic
    ELSE SumFrom(prods, ds, order, 1, Value(U32Zero, FALSE), chk)

CurrencySum(prods, ds, order, chk) ==
    SumFrom(prods, ds, order, 1, Value(U32Zero, FALSE), chk)

\* Basket::total for a basket holding prods and ds, iterated in this order.
TotalOf(prods, ds, order, chk) == CurrencySum(prods, ds, order, chk)

\* ------------------------------------------------------------ operations

NoTotal == Value(U32Zero, FALSE)

Returned(op, arg, ok, total) == [op |-> op, arg |-> arg, ok |-> ok, total |-> total]

\* A panic in total unwinds out of the caller: nothing is called after it.
Panicked == result.op = "total" /\ result.total.panic

\* Basket::new()
Init ==
    /\ products = << >>
    /\ deals = << >>
    /\ overflowChecks \in BOOLEAN
    /\ result = Returned("new", "", TRUE, NoTotal)
    /\ scanned = [i \in Identifiers |-> 0]

\* A lookup that falls back to the first catalog entry instead of failing.
LookupOrDefault(name) ==
    IF name \in DOMAIN INVENTORY THEN {INVENTORY[name]} ELSE {INVENTORY["A0001"]}

\* INVENTORY.get(product_name)
Lookup(name) == IF name \in DOMAIN INVENTORY THEN {INVENTORY[name]} ELSE {}

\* *self.products.entry(product).or_insert(1) += 1: the first scan counts twice.
EntryInsertThenAdd(prods, product) ==
    [p \in DOMAIN prods \cup {product} |->
        IF p = product
        THEN (IF product \in DOMAIN prods THEN prods[product] + 1 ELSE 2)
        ELSE prods[p]]

\* self.products.entry(product).and_modify(|quantity| *quantity += 1).or_insert(1)
Entry(prods, product) ==
    [p \in DOMAIN prods \cup {product} |->
        IF p = product
        THEN (IF product \in DOMAIN prods THEN prods[product] + 1 ELSE 1)
        ELSE prods[p]]

\* Basket::scan(product_name)
Scan(name) ==
    /\ ~Panicked
    /\ scanned[name] < MaxScans
    /\ IF Lookup(name) = {}
       THEN /\ result' = Returned("scan", name, FALSE, NoTotal)
            /\ UNCHANGED <<products, scanned>>
       ELSE /\ products' = Entry(products, CHOOSE p \in Lookup(name) : TRUE)
            /\ result' = Returned("scan", name, TRUE, NoTotal)
            /\ scanned' = [scanned EXCEPT ![name] = @ + 1]
    /\ UNCHANGED <<deals, overflowChecks>>

\* self.deals.push(deal)
Push(ds, deal) == Append(ds, deal)

\* Basket::add_deal(deal)
AddDeal(deal) ==
    /\ ~Panicked
    /\ Len(deals) < MaxDeals
    /\ deals' = Push(deals, deal)
    /\ result' = Returned("add_deal", "", TRUE, NoTotal)
    /\ UNCHANGED <<products, overflowChecks, scanned>>

\* total consuming the lines it sums (drain() in place of iter()).
TotalDraining ==
    /\ ~Panicked
    /\ \E order \in Orders(DOMAIN products) :
          result' = Returned("total", "", TRUE,
                             TotalOf(products, deals, order, overflowChecks))
    /\ products' = << >>
    /\ UNCHANGED <<deals, overflowChecks, scanned>>

\* Basket::total(&self)
Total ==
    /\ ~Panicked
    /\ \E order \in Orders(DOMAIN products) :
          result' = Returned("total", "", TRUE,
                             TotalOf(products, deals, order, overflowChecks))
    /\ UNCHANGED <<products, deals, overflowChecks, scanned>>

Next ==
    \/ \E name \in Identifiers : Scan(name)
    \/ \E deal \in DealValues : AddDeal(deal)
    \/ Total

Spec == Init /\ [][Next]_vars


\* ------------------------------------------------------ reading the state

\* The positions of the deals bound to this identifier.
Bound(name, ds) == {i \in 1..Len(ds) : ds[i].product = name}

\* The earliest-added deal bound to this identifier (there is one).
Earliest(name, ds) == ds[CHOOSE i \in Bound(name, ds) : \A j \in Bound(name, ds) : i <= j]

RECURSIVE EarliestOnlyFrom(_, _)
\* ds from position i on, without every deal that follows another deal bound
\* to the same identifier.
EarliestOnlyFrom(ds, i) ==
    IF i > Len(ds) THEN << >>
    ELSE (IF \E j \in 1..(i - 1) : ds[j].product = ds[i].product
          THEN << >> ELSE << ds[i] >>) \o EarliestOnlyFrom(ds, i + 1)

EarliestOnly(ds) == EarliestOnlyFrom(ds, 1)

\* What total returns on the current basket, iterating in this order.
TotalNow(order) == TotalOf(products, deals, order, overflowChecks)

\* What a line of the current basket is billed.
LineNow(p) == LineAmount(p, products[p], deals, overflowChecks)

\* A returned Currency holding exactly n minor units, nothing having wrapped.
Exactly(n) == Value(U32(n), FALSE)

\* The last call was total and it returned (did not panic).
TotalReturned == result.op = "total" /\ ~result.total.panic

\* The basket of the reference scenario: A0002, A0001, A0002 scanned.
ScenarioBasket ==
    /\ DOMAIN products = {INVENTORY["A0001"], INVENTORY["A0002"]}
    /\ products[INVENTORY["A0001"]] = 1
    /\ products[INVENTORY["A0002"]] = 2

\* ----------------------------------------------------------------- claims

\* C1: total applies at most one deal to a product line, the earliest-added
\* deal bound to the product's name; deals added later for the same
\* identifier do not change the total, whatever their kind.
C1_EarliestDealOnly ==
    result.op = "total" =>
       /\ \A p \in DOMAIN products :
             Bound(p.name, deals) # {} =>
                LineNow(p) = DealAmount(Earliest(p.name, deals).kind, products[p],
                                        p.price, overflowChecks)
       /\ \A order \in Orders(DOMAIN products) :
             result.total =
                TotalOf(products, EarliestOnly(deals), order, overflowChecks)

\* C1 happens: total returned on a basket holding a scanned product with two
\* deals of different kinds bound to it, where the later one alone would
\* have given another amount.
C1_Witness ==
    /\ TotalReturned
    /\ \E p \in DOMAIN products : \E i, j \in Bound(p.name, deals) :
          /\ i < j
          /\ deals[i].kind # deals[j].kind
          /\ LineAmount(p, products[p], << deals[j] >>, overflowChecks) # LineNow(p)

\* C2: a line whose first matching deal is PercentageDiscount(p) is billed
\* floor(quantity * unit_price * (100 - p) / 100); one A0001 with DEAL2 bills
\* 1169 and the reference scenario with DEAL2 totals 1967.
C2_PercentageLine ==
    result.op = "total" =>
       /\ \A p \in DOMAIN products :
             (/\ Bound(p.name, deals) # {}
              /\ Earliest(p.name, deals).kind.tag = "PercentageDiscount") =>
                LET pct == Earliest(p.name, deals).kind.percentage
                    billed == LineNow(p)
                IN  /\ ~billed.panic
                    /\ FitsNat(billed.val)
                    /\ ToNat(billed.val) =
                          (products[p] * p.price * (100 - pct)) \div 100
       /\ (/\ deals = << DEAL2 >>
           /\ DOMAIN products = {INVENTORY["A0001"]}
           /\ products[INVENTORY["A0001"]] = 1) => result.total = Exactly(1169)
       /\ (deals = << DEAL2 >> /\ ScenarioBasket) => result.total = Exactly(1967)

\* C3: a line whose first matching deal is Buy1Get1Free is billed
\* ceil(quantity / 2) * unit_price; the reference scenario with DEAL1 totals
\* 1698.
C3_Buy1Get1FreeLine ==
    result.op = "total" =>
       /\ \A p \in DOMAIN products :
             (/\ Bound(p.name, deals) # {}
              /\ Earliest(p.name, deals).kind.tag = "Buy1Get1Free") =>
                LineNow(p) = Exactly(((products[p] + 1) \div 2) * p.price)
       /\ (deals = << DEAL1 >> /\ ScenarioBasket) => result.total = Exactly(1698)

\* C3 happens: total returned 399 + 1299 on the reference scenario with DEAL1,
\* the two A0002 billed as one.
C3_Witness ==
    /\ TotalReturned
    /\ deals = << DEAL1 >>
    /\ ScenarioBasket
    /\ result.total = Exactly(PriceA0002 + PriceA0001)

\* C4: a line no deal is bound to is billed quantity * unit_price, with an
\* empty deal list or with deals bound to other identifiers only (the
\* catalog's or not); N scans of one product and no deal total N * unit_price,
\* and A0001 and A0002 once each total 1698.
C4_PlainLine ==
    result.op = "total" =>
       /\ \A p \in DOMAIN products :
             Bound(p.name, deals) = {} => LineNow(p) = Exactly(products[p] * p.price)
       /\ \A p \in DOMAIN products :
             (DOMAIN products = {p} /\ Bound(p.name, deals) = {}) =>
                result.total = Exactly(scanned[p.name] * p.price)
       /\ (/\ deals = << >>
           /\ DOMAIN products = {INVENTORY["A0001"], INVENTORY["A0002"]}
           /\ \A p \in DOMAIN products : products[p] = 1) =>
             result.total = Exactly(1698)

\* C4 happens: total returned quantity * unit_price for a product scanned
\* more than once, while the basket held a deal bound to the other catalog
\* product and a deal bound to an identifier the catalog does not hold.
C4_Witness ==
    /\ TotalReturned
    /\ DOMAIN products = {INVENTORY["A0001"]}
    /\ products[INVENTORY["A0001"]] > 1
    /\ Bound("A0002", deals) # {}
    /\ Bound("X9999", deals) # {}
    /\ result.total = Exactly(products[INVENTORY["A0001"]] * PriceA0001)

\* C5: scan of an identifier the catalog does not hold returns the failure
\* and leaves the basket as it was: the same lines with the same quantities,
\* the same deals, hence the same total before and after.
C5_FailedScanChangesNothing ==
    [][ (result'.op = "scan" /\ result'.arg \notin DOMAIN INVENTORY) =>
           /\ ~result'.ok
           /\ products' = products
           /\ deals' = deals
           /\ \A order \in Orders(DOMAIN products) :
                 TotalOf(products', deals', order, overflowChecks') = TotalNow(order)
      ]_vars

\* C5 happens: the failed scan was made on a basket that holds lines and
\* deals.
C5_Witness ==
    /\ result.op = "scan"
    /\ ~result.ok
    /\ result.arg = "X9999"
    /\ Cardinality(DOMAIN products) = 2
    /\ deals # << >>

\* The quantities a basket holds after these numbers of successful scans.
FromCounts(counts) ==
    [p \in {INVENTORY[n] : n \in {m \in DOMAIN INVENTORY : counts[m] > 0}} |->
        counts[p.name]]

\* C6: scan of a catalog identifier succeeds and adds one to the quantity of
\* exactly that Product (making it 1 on the first scan), every other quantity
\* and the deal list staying as they were; so each quantity is the number of
\* successful scans of its identifier and no line has quantity 0.
C6_ScanCounts ==
    /\ [][ (result'.op = "scan" /\ result'.arg \in DOMAIN INVENTORY) =>
              LET product == INVENTORY[result'.arg]
              IN  /\ result'.ok
                  /\ DOMAIN products' = DOMAIN products \cup {product}
                  /\ products'[product] =
                        IF product \in DOMAIN products THEN products[product] + 1
                                                       ELSE 1
                  /\ \A p \in DOMAIN products' \ {product} :
                        products'[p] = products[p]
                  /\ deals' = deals
         ]_vars
    /\ [](/\ products = FromCounts(scanned)
          /\ \A p \in DOMAIN products : products[p] >= 1)

\* C6 happens: a scan succeeded on a basket that holds deals, took one line
\* from 1 to 2 and left the other line at 1.
C6_Witness ==
    /\ result.op = "scan"
    /\ result.ok
    /\ result.arg = "A0002"
    /\ ScenarioBasket
    /\ deals # << >>

\* C7: total cannot fail: whatever deals add_deal accepted and however many
\* scans were made, total returns a Currency and no operation of it leaves
\* the u32 width; only scan of an unknown identifier fails.
C7_TotalCannotFail ==
    /\ result.op = "total" => (~result.total.panic /\ ~result.total.fault)
    /\ ~result.ok => (result.op = "scan" /\ result.arg \notin DOMAIN INVENTORY)

\* C8: total changes neither the quantities nor the deal list, and total
\* called again with no scan or add_deal in between returns the same value.
C8_TotalPure ==
    [][ result'.op = "total" =>
           /\ products' = products
           /\ deals' = deals
           /\ result.op = "total" => result'.total = result.total
      ]_vars

\* C8 happens: total returned on a basket that holds two lines and deals.
C8_Witness ==
    /\ TotalReturned
    /\ Cardinality(DOMAIN products) = 2
    /\ Len(deals) >= 2

\* C9: with no successful scan the total is zero, whatever deals were added
\* and whatever scans failed.
C9_EmptyBasketZero ==
    (result.op = "total" /\ \A i \in Identifiers : scanned[i] = 0) =>
       result.total = Exactly(0)

\* C9 happens: total returned on a basket with no line that holds a deal of
\* each kind bound to catalog products, one with a percentage above 100.
C9_Witness ==
    /\ TotalReturned
    /\ \A i \in Identifiers : scanned[i] = 0
    /\ \E i, j \in 1..Len(deals) :
          /\ deals[i].kind.tag = "Buy1Get1Free"
          /\ deals[j].kind.tag = "PercentageDiscount"
          /\ deals[j].kind.percentage > 100
          /\ deals[i].product \in DOMAIN INVENTORY
          /\ deals[j].product \in DOMAIN INVENTORY

\* The deal lists that hold the deals of ds in another order of adding, the
\* deals bound to one identifier keeping their order among themselves.
Reorderings(ds) ==
    { r \in { [k \in 1..Len(ds) |-> ds[pi[k]]] : pi \in Orders(1..Len(ds)) } :
         \A i \in Identifiers :
            SelectSeq(r, LAMBDA d : d.product = i) =
            SelectSeq(ds, LAMBDA d : d.product = i) }

\* C10: the total depends on the number of successful scans of each
\* identifier and on the order among the deals bound to one identifier, and
\* on nothing else: not on the order of the scans, not on how scans and
\* add_deal calls interleave, not on the order of deals bound to different
\* identifiers, not on the order in which total walks the lines.
C10_OrderIndependent ==
    result.op = "total" =>
       /\ products = FromCounts(scanned)
       /\ \A r \in Reorderings(deals) :
             \A order \in Orders(DOMAIN FromCounts(scanned)) :
                TotalOf(FromCounts(scanned), r, order, overflowChecks) = result.total

\* C10 happens: total returned on two lines, each discounted by a deal of its
\* own, the deals having been added in the order opposite to the scans'
\* identifiers.
C10_Witness ==
    /\ TotalReturned
    /\ Cardinality(DOMAIN products) = 2
    /\ Len(deals) = 2
    /\ deals[1].product = "A0002"
    /\ deals[2].product = "A0001"
    /\ \A p \in DOMAIN products : LineNow(p) # Exactly(products[p] * p.price)

=============================================================================
